---------------------------- MODULE Spec2Model ----------------------------
(***************************************************************************)
(* A model of the sherlocked detection service:                            *)
(*   - DetectionService.process_video and _infer_frame                     *)
(*     (src/server/app/services/detector.py),                              *)
(*   - extract_dominant_color, _hsv_to_color_name and color_matches        *)
(*     (src/server/app/services/color_extractor.py),                       *)
(*   - the process-video endpoint and parse_intent                         *)
(*     (src/server/app/main.py).                                           *)
(*                                                                         *)
(* Conventions.                                                            *)
(*   - An Optional value is a sequence of length at most one: None is <<>> *)
(*     and a present value x is <<x>>.                                     *)
(*   - A Python str is a sequence of one-character strings.                *)
(*   - Confidences and thresholds are scaled by 100 (0.6 is 60).           *)
(*   - A float that is a quotient (a timestamp, a duration, the sampling   *)
(*     interval) is a record [n, d] standing for n / d, with d > 0.        *)
(***************************************************************************)
EXTENDS Integers, Sequences, FiniteSets, TLC

VARIABLES
    pc,                 \* where the process_video call is
    args,               \* the arguments of the call, and the caller's query
    video,              \* the video file behind video_path
    capture,            \* the cv2.VideoCapture handle: none, open, released
    reads,              \* frames capture.read() has delivered so far
    fps,                \* local fps
    total_frames,       \* local total_frames
    duration,           \* local duration
    frame_step,         \* local frame_step
    frame_index,        \* local frame_index
    processed_frames,   \* local processed_frames
    detections,         \* local detections: List[FrameDetections]
    target_hits,        \* local target_hits
    inferred,           \* history: what was handed to the detector, in order
    outcome,            \* how the call ended: the returned dict or the exception
    call,               \* the pending call of a helper function
    ret,                \* what the helper call returned
    upload,             \* the request in the process-video endpoint, if any
    runs                \* the process_video calls running side by side

pvars == <<pc, args, video, capture, reads, fps, total_frames, duration,
           frame_step, frame_index, processed_frames, detections,
           target_hits, inferred, outcome>>

vars == <<pc, args, video, capture, reads, fps, total_frames, duration,
          frame_step, frame_index, processed_frames, detections,
          target_hits, inferred, outcome, call, ret, upload, runs>>

-----------------------------------------------------------------------------
(* Optional values and strings *)

None == <<>>

Some(x) == <<x>>

IsNone(o) == o = <<>>

Get(o) == o[1]

\* Python truthiness of an Optional[str] / Optional[int] argument.
TruthyStr(o) == o # None /\ Get(o) # <<>>

TruthyInt(o) == o # None /\ Get(o) # 0

UpperCase == <<"A", "B", "C", "D", "E", "F", "G", "H", "I", "J", "K", "L", "M",
               "N", "O", "P", "Q", "R", "S", "T", "U", "V", "W", "X", "Y", "Z">>

LowerCase == <<"a", "b", "c", "d", "e", "f", "g", "h", "i", "j", "k", "l", "m",
               "n", "o", "p", "q", "r", "s", "t", "u", "v", "w", "x", "y", "z">>

\* str.lower() on one character.
LowerChar(c) ==
    IF \E i \in 1..Len(UpperCase) : UpperCase[i] = c
    THEN LowerCase[CHOOSE i \in 1..Len(UpperCase) : UpperCase[i] = c]
    ELSE c

\* str.lower()
Lower(s) == [i \in 1..Len(s) |-> LowerChar(s[i])]

\* The characters str.strip() removes (the ones the model's strings use).
IsSpace(c) == c \in {" ", "\t", "\n"}

RECURSIVE LStrip(_)
LStrip(s) == IF s # <<>> /\ IsSpace(Head(s)) THEN LStrip(Tail(s)) ELSE s

RECURSIVE RStrip(_)
RStrip(s) ==
    IF s # <<>> /\ IsSpace(s[Len(s)]) THEN RStrip(SubSeq(s, 1, Len(s) - 1)) ELSE s

\* str.strip()
Strip(s) == RStrip(LStrip(s))

-----------------------------------------------------------------------------
(* Arithmetic *)

Max(a, b) == IF a >= b THEN a ELSE b

Min(a, b) == IF a <= b THEN a ELSE b

\* math.ceil(a / b) for b > 0
CeilDiv(a, b) == -((-a) \div b)

-----------------------------------------------------------------------------
(* Program constants *)

\* Settings.min_confidence, the default of MIN_CONFIDENCE ("0.6"), scaled.
DefaultMinConf == 60

\* The fps assumed when the container reports none.
FallbackFps == 30

-----------------------------------------------------------------------------
(* Bounds and the inputs the model draws from *)

\* Frames a video file holds, at most.
MaxFrames == 4

\* The largest max_frames cap a caller passes.
MaxCap == 2

\* The class names of the loaded model (frame_result.names).
Names == (0 :> <<"s", "h", "i", "r", "t">>) @@ (1 :> <<"S", "h", "i", "r", "t">>)
         @@ (2 :> <<"d", "o", "g">>)

Digits == <<"0", "1", "2", "3", "4", "5", "6", "7", "8", "9">>

\* str(n) for n >= 0
RECURSIVE StrOfInt(_)
StrOfInt(n) ==
    IF n < 10 THEN <<Digits[n + 1]>>
    ELSE Append(StrOfInt(n \div 10), Digits[(n % 10) + 1])

Blue == <<"b", "l", "u", "e">>

Red == <<"r", "e", "d">>

\* One box of a raw YOLO result: boxes.cls[idx], boxes.conf[idx], boxes.xyxy[idx].
\* scene_color is the colour of the boxed region in the scene; it is no part of
\* the detector's output.
Box(cls, conf, xyxy, scene_color) ==
    [cls |-> cls, conf |-> conf, xyxy |-> xyxy, scene_color |-> scene_color]

\* The frames a video can hold: the raw result the detector gives for the frame
\* (boxes is None or a list of boxes) and whether cv2.imencode succeeds on it.
FrameKinds ==
    { [boxes |-> None, encodable |-> TRUE],
      [boxes |-> Some(<<>>), encodable |-> TRUE],
      [boxes |-> Some(<< Box(0, 90, <<1, 1, 9, 9>>, Some(Blue)),
                         Box(0, 80, <<2, 2, 8, 8>>, Some(Red)) >>),
       encodable |-> TRUE],
      [boxes |-> Some(<< Box(1, 59, <<0, 0, 5, 5>>, Some(Blue)),
                         Box(2, 60, <<3, 3, 7, 7>>, Some(Red)),
                         Box(7, 61, <<4, 4, 6, 6>>, None) >>),
       encodable |-> TRUE],
      [boxes |-> Some(<< Box(2, 70, <<0, 0, 9, 9>>, None) >>),
       encodable |-> FALSE] }

\* The raw boxes of a frame, as a list.
RawOf(frame) == IF frame.boxes = None THEN <<>> ELSE Get(frame.boxes)

\* A quotient n / d.
Rat(n, d) == [n |-> n, d |-> d]

\* frame_interval_seconds values: 0, -1/2, 1/2, 1, 3/2.
Intervals == {Rat(0, 1), Rat(-1, 2), Rat(1, 2), Rat(1, 1), Rat(3, 2)}

\* What the caller is looking for: an object name and, optionally, a colour.
Queries ==
    { [object |-> None, color |-> None],
      [object |-> Some(<<>>), color |-> None],
      [object |-> Some(<<"S", "H", "I", "R", "T">>), color |-> None],
      [object |-> Some(<<"s", "h", "i", "r", "t">>), color |-> Some(Blue)] }

\* The arguments of a process_video call. The signature has no colour
\* parameter: the query's colour stays with the caller (query_color).
ArgSets ==
    [ frame_interval_seconds : Intervals,
      min_confidence : {None, Some(80)},
      query : Queries,
      max_frames : {None} \cup {Some(k) : k \in 0..MaxCap} ]

\* target_object as the caller passes it.
TargetObject(a) == a.query.object

\* A video file: whether the path exists, whether OpenCV can open it, the fps
\* and frame count its container reports (0 when unknown), the frames it
\* holds (n_file) and how many of them decode (n_yield): capture.read()
\* gives ret = False from frame n_yield on.
Videos ==
    { [state |-> "missing", fps |-> 0, count |-> 0, n_file |-> 0, n_yield |-> 0],
      [state |-> "unopenable", fps |-> 0, count |-> 0, n_file |-> 0, n_yield |-> 0] }
    \cup
    { v \in [state : {"ok"}, fps : {0, 1, 2}, count : 0..MaxFrames,
             n_file : 0..MaxFrames, n_yield : 0..MaxFrames] :
        /\ v.n_yield <= v.n_file
        /\ v.count \in {0, v.n_file} }

\* A mid-stream decode failure: a frame of the file that does not decode.
DecodeFailure(v) == v.n_yield < v.n_file

-----------------------------------------------------------------------------
(* detector.py: Detection, FrameDetections, _infer_frame, _format_timestamp *)

\* Detection(class_name, confidence, bbox)
Detection(class_name, confidence, bbox) ==
    [class_name |-> class_name, confidence |-> confidence, bbox |-> bbox]

\* Detection.to_dict
DetectionToDict(obj) ==
    [class |-> obj.class_name, confidence |-> obj.confidence, bbox |-> obj.bbox]

\* [obj.to_dict() for obj in objects]
ObjectsToDicts(objects) == [i \in 1..Len(objects) |-> DetectionToDict(objects[i])]

\* FrameDetections.to_dict: the image key is present only when image_b64 is set.
FrameDetectionsToDict(fd) ==
    IF fd.image_b64 # None
    THEN [timestamp |-> fd.timestamp, frame_index |-> fd.frame_index,
          objects |-> ObjectsToDicts(fd.objects), image |-> Get(fd.image_b64)]
    ELSE [timestamp |-> fd.timestamp, frame_index |-> fd.frame_index,
          objects |-> ObjectsToDicts(fd.objects)]

\* names.get(cls_id, str(cls_id))
ClassName(cls_id) == IF cls_id \in DOMAIN Names THEN Names[cls_id] ELSE StrOfInt(cls_id)

\* BelowThreshold with the boundary on the wrong side.
BelowOrAtThreshold(confidence, min_confidence) == confidence <= min_confidence

\* The test that skips a box: confidence < min_confidence.
BelowThreshold(confidence, min_confidence) == confidence < min_confidence

\* The loop of _infer_frame over enumerate(boxes.cls), from box idx on.
RECURSIVE InferLoop(_, _, _, _)
InferLoop(boxes, idx, min_confidence, objects) ==
    IF idx > Len(boxes) THEN objects
    ELSE IF BelowThreshold(boxes[idx].conf, min_confidence)
         THEN InferLoop(boxes, idx + 1, min_confidence, objects)
         ELSE InferLoop(boxes, idx + 1, min_confidence,
                        Append(objects,
                               Detection(ClassName(boxes[idx].cls),
                                         boxes[idx].conf,
                                         boxes[idx].xyxy)))

\* The objects _infer_frame keeps of a frame's raw result.
InferObjects(frame, min_confidence) ==
    IF frame.boxes # None
    THEN InferLoop(Get(frame.boxes), 1, min_confidence, <<>>)
    ELSE <<>>

\* _infer_frame, once the model has answered: the snapshot is encoded only
\* when some object is kept, and is None when cv2.imencode fails.
InferFrame(frame, min_confidence, timestamp, index) ==
    LET objects == InferObjects(frame, min_confidence)
    IN  [timestamp |-> timestamp,
         frame_index |-> index,
         objects |-> objects,
         image_b64 |-> IF objects # <<>> /\ frame.encodable
                       THEN Some("jpg") ELSE None]

\* _format_timestamp: MM:SS of seconds = n / d, as the two numbers printed.
FormatTimestamp(seconds) ==
    LET whole == seconds.n \div seconds.d
    IN  [mins |-> whole \div 60, secs |-> whole % 60]

-----------------------------------------------------------------------------
(* detector.py: DetectionService.process_video *)

\* confidence_threshold
ConfidenceThreshold(min_confidence) ==
    IF min_confidence # None THEN Get(min_confidence) ELSE DefaultMinConf

\* The rejection test on frame_interval_seconds.
IntervalRejected(interval) == interval.n <= 0

\* duration = total_frames / fps if fps else 0.0
Duration(total, reported_fps) ==
    IF reported_fps # 0 THEN Rat(total, reported_fps) ELSE Rat(0, 1)

\* fps after the fallback for missing metadata.
EffectiveFps(reported_fps) == IF reported_fps <= 0 THEN FallbackFps ELSE reported_fps

\* FrameStep with the quotient rounded down instead of up.
FrameStepFloor(interval, f) == Max((interval.n * f) \div interval.d, 1)

\* frame_step = max(int(math.ceil(frame_interval_seconds * fps)), 1)
FrameStep(interval, f) == Max(CeilDiv(interval.n * f, interval.d), 1)

\* A frame is forwarded to the detector unless frame_index % frame_step != 0.
Sampled(index, step) == index % step = 0

\* max_frames and processed_frames >= max_frames
CapReached(max_frames, processed) ==
    TruthyInt(max_frames) /\ processed >= Get(max_frames)

\* IsTarget comparing the names as they are written.
IsTargetCaseSensitive(obj, target_object) == obj.class_name = target_object

\* obj.class_name.lower() == target_object.lower()
IsTarget(obj, target_object) == Lower(obj.class_name) = Lower(target_object)

\* matches = [obj.to_dict() for obj in objects if <obj is the target>]
RECURSIVE Matches(_, _)
Matches(objects, target_object) ==
    IF objects = <<>> THEN <<>>
    ELSE IF IsTarget(Head(objects), target_object)
         THEN <<DetectionToDict(Head(objects))>> \o Matches(Tail(objects), target_object)
         ELSE Matches(Tail(objects), target_object)

\* The entry appended to target_hits for a frame with matches.
TargetHit(fd, matches) ==
    [timestamp |-> fd.timestamp,
     timestamp_formatted |-> FormatTimestamp(fd.timestamp),
     image |-> fd.image_b64,
     objects |-> matches]

\* target_hits after a frame's detections: a hit is appended when a target is
\* given and some kept object matches it.
HitsAfter(hits, fd, target_object) ==
    IF TruthyStr(target_object) /\ Matches(fd.objects, Get(target_object)) # <<>>
    THEN Append(hits, TargetHit(fd, Matches(fd.objects, Get(target_object))))
    ELSE hits

\* DetectionsAfter recording every forwarded frame, empty ones too.
DetectionsAfterAlways(dets, fd) == Append(dets, fd)

\* detections after a frame: appended when some object was kept.
DetectionsAfter(dets, fd) == IF fd.objects # <<>> THEN Append(dets, fd) ELSE dets

\* Summary counting every forwarded frame as a detection.
SummaryCountingForwarded(a, f, dur, total, processed, dets, hits) ==
    [fps |-> f,
     duration_seconds |-> dur,
     total_frames |-> total,
     processed_frames |-> processed,
     frame_interval_seconds |-> a.frame_interval_seconds,
     confidence_threshold |-> ConfidenceThreshold(a.min_confidence),
     target_object |-> TargetObject(a),
     detections_found |-> processed,
     target_hits |-> Len(hits)]

\* The summary dict.
Summary(a, f, dur, total, processed, dets, hits) ==
    [fps |-> f,
     duration_seconds |-> dur,
     total_frames |-> total,
     processed_frames |-> processed,
     frame_interval_seconds |-> a.frame_interval_seconds,
     confidence_threshold |-> ConfidenceThreshold(a.min_confidence),
     target_object |-> TargetObject(a),
     detections_found |-> Len(dets),
     target_hits |-> Len(hits)]

\* The dict process_video returns.
Returned(a, f, dur, total, processed, dets, hits) ==
    [kind |-> "return",
     results |-> [i \in 1..Len(dets) |-> FrameDetectionsToDict(dets[i])],
     target_hits |-> hits,
     summary |-> Summary(a, f, dur, total, processed, dets, hits)]

\* An exception leaving process_video.
Raised(exc) == [kind |-> "raise", exc |-> exc]

\* No helper call is pending while process_video runs.
NoCall == [op |-> "none"]

Init ==
    /\ pc = "start"
    /\ video \in Videos
    /\ args = None
    /\ capture = "none"
    /\ reads = 0
    /\ fps = 0
    /\ total_frames = 0
    /\ duration = Rat(0, 1)
    /\ frame_step = 0
    /\ frame_index = 0
    /\ processed_frames = 0
    /\ detections = <<>>
    /\ target_hits = <<>>
    /\ inferred = <<>>
    /\ outcome = None
    /\ call = NoCall
    /\ ret = None
    /\ upload = None
    /\ runs = <<>>

\* video_path does not exist: FileNotFoundError, before anything is opened.
CallMissing ==
    /\ pc = "start"
    /\ video.state = "missing"
    /\ \E a \in ArgSets : args' = Some(a)
    /\ pc' = "raised"
    /\ outcome' = Some(Raised("FileNotFoundError"))
    /\ UNCHANGED <<video, capture, reads, fps, total_frames, duration, frame_step,
                   frame_index, processed_frames, detections, target_hits,
                   inferred, call, ret, upload, runs>>

\* cv2.VideoCapture could not open the file: RuntimeError.
CallUnopenable ==
    /\ pc = "start"
    /\ video.state = "unopenable"
    /\ \E a \in ArgSets : args' = Some(a)
    /\ pc' = "raised"
    /\ outcome' = Some(Raised("RuntimeError"))
    /\ UNCHANGED <<video, capture, reads, fps, total_frames, duration, frame_step,
                   frame_index, processed_frames, detections, target_hits,
                   inferred, call, ret, upload, runs>>

\* The capture is open and the metadata read; then a non-positive
\* frame_interval_seconds raises ValueError, outside the try block.
CallRejected ==
    /\ pc = "start"
    /\ video.state = "ok"
    /\ \E a \in ArgSets :
        /\ IntervalRejected(a.frame_interval_seconds)
        /\ args' = Some(a)
    /\ capture' = "open"
    /\ fps' = video.fps
    /\ total_frames' = video.count
    /\ duration' = Duration(video.count, video.fps)
    /\ pc' = "raised"
    /\ outcome' = Some(Raised("ValueError"))
    /\ UNCHANGED <<video, reads, frame_step, frame_index, processed_frames,
                   detections, target_hits, inferred, call, ret, upload, runs>>

\* The capture is open, the arguments are accepted, the loop is entered.
CallEnter ==
    /\ pc = "start"
    /\ video.state = "ok"
    /\ \E a \in ArgSets :
        /\ ~IntervalRejected(a.frame_interval_seconds)
        /\ args' = Some(a)
        /\ frame_step' = FrameStep(a.frame_interval_seconds, EffectiveFps(video.fps))
    /\ capture' = "open"
    /\ fps' = EffectiveFps(video.fps)
    /\ total_frames' = video.count
    /\ duration' = Duration(video.count, video.fps)
    /\ frame_index' = 0
    /\ processed_frames' = 0
    /\ detections' = <<>>
    /\ target_hits' = <<>>
    /\ pc' = "loop"
    /\ UNCHANGED <<video, reads, inferred, outcome, call, ret, upload, runs>>

\* capture.read() gives ret = False: break, release in the finally block,
\* build the summary and return.
ReadEnd ==
    /\ pc = "loop"
    /\ reads >= video.n_yield
    /\ capture' = "released"
    /\ pc' = "returned"
    /\ outcome' = Some(Returned(Get(args), fps, duration, total_frames,
                                processed_frames, detections, target_hits))
    /\ UNCHANGED <<args, video, reads, fps, total_frames, duration, frame_step,
                   frame_index, processed_frames, detections, target_hits,
                   inferred, call, ret, upload, runs>>

\* A frame is read and skipped.
SkipFrame ==
    /\ pc = "loop"
    /\ reads < video.n_yield
    /\ ~Sampled(frame_index, frame_step)
    /\ reads' = reads + 1
    /\ frame_index' = frame_index + 1
    /\ UNCHANGED <<pc, args, video, capture, fps, total_frames, duration,
                   frame_step, processed_frames, detections, target_hits,
                   inferred, outcome, call, ret, upload, runs>>

\* A frame is read and forwarded, and the model raises: the exception leaves
\* process_video through the finally block.
DetectorRaises ==
    /\ pc = "loop"
    /\ reads < video.n_yield
    /\ Sampled(frame_index, frame_step)
    /\ \E frame \in FrameKinds :
        inferred' = Append(inferred, [frame_index |-> frame_index,
                                      position |-> reads,
                                      raw |-> RawOf(frame),
                                      answered |-> FALSE])
    /\ reads' = reads + 1
    /\ processed_frames' = processed_frames + 1
    /\ capture' = "released"
    /\ pc' = "raised"
    /\ outcome' = Some(Raised("DetectorError"))
    /\ UNCHANGED <<args, video, fps, total_frames, duration, frame_step,
                   frame_index, detections, target_hits, call, ret, upload, runs>>

\* A frame is read, forwarded and inferred; its detections and hits are
\* recorded; the max_frames cap ends the run, otherwise the loop goes on.
ProcessFrame ==
    /\ pc = "loop"
    /\ reads < video.n_yield
    /\ Sampled(frame_index, frame_step)
    /\ \E frame \in FrameKinds :
        LET a == Get(args)
            fd == InferFrame(frame, ConfidenceThreshold(a.min_confidence),
                             Rat(frame_index, fps), frame_index)
            dets == DetectionsAfter(detections, fd)
            hits == IF fd.objects # <<>>
                    THEN HitsAfter(target_hits, fd, TargetObject(a))
                    ELSE target_hits
        IN  /\ inferred' = Append(inferred, [frame_index |-> frame_index,
                                             position |-> reads,
                                             raw |-> RawOf(frame),
                                             answered |-> TRUE])
            /\ detections' = dets
            /\ target_hits' = hits
            /\ IF CapReached(a.max_frames, processed_frames + 1)
               THEN /\ capture' = "released"
                    /\ pc' = "returned"
                    /\ outcome' = Some(Returned(a, fps, duration, total_frames,
                                                processed_frames + 1, dets, hits))
                    /\ frame_index' = frame_index
               ELSE /\ frame_index' = frame_index + 1
                    /\ UNCHANGED <<capture, pc, outcome>>
    /\ reads' = reads + 1
    /\ processed_frames' = processed_frames + 1
    /\ UNCHANGED <<args, video, fps, total_frames, duration, frame_step, call, ret,
                   upload, runs>>

Next ==
    \/ CallMissing
    \/ CallUnopenable
    \/ CallRejected
    \/ CallEnter
    \/ ReadEnd
    \/ SkipFrame
    \/ DetectorRaises
    \/ ProcessFrame

Spec == Init /\ [][Next]_vars

-----------------------------------------------------------------------------
(* Properties of process_video *)

\* The least integer k >= 1 with k >= interval * f.
LeastStep(interval, f) ==
    CHOOSE k \in 1..(Max(interval.n * f, 0) + 1) :
        /\ k * interval.d >= interval.n * f
        /\ \A j \in 1..(k - 1) : j * interval.d < interval.n * f

\* The frame_index values handed to the detector.
ForwardedIndices == {inferred[i].frame_index : i \in 1..Len(inferred)}

\* The file frames handed to the detector.
ForwardedPositions == {inferred[i].position : i \in 1..Len(inferred)}

\* {0, step, 2 * step, ...} below n
Multiples(step, n) == {k \in 0..(n - 1) : \E m \in 0..n : k = m * step}

\* C1: a run with frame_interval_seconds > 0, a reported fps > 0 and no
\* max_frames cap that returns has frame_step = ceil(interval * fps), at least
\* 1, has forwarded exactly the frames {0, step, 2 * step, ...} below the
\* number of frames the source yields, each under its own index, and reports
\* their number as processed_frames.
C1_SamplingCadence ==
    (/\ pc = "returned"
     /\ Get(args).frame_interval_seconds.n > 0
     /\ video.fps > 0
     /\ Get(args).max_frames = None)
    => LET step == LeastStep(Get(args).frame_interval_seconds, video.fps)
           expected == Multiples(step, video.n_yield)
       IN  /\ frame_step = step
           /\ frame_step >= 1
           /\ ForwardedIndices = expected
           /\ ForwardedPositions = expected
           /\ Len(inferred) = Cardinality(expected)
           /\ processed_frames = Cardinality(expected)
           /\ Get(outcome).summary.processed_frames = Cardinality(expected)

\* C1 witness: fps 2, interval 1.0, 4 frames: step 2, frames {0, 2} forwarded.
C1_Witness ==
    /\ pc = "returned"
    /\ Get(args).frame_interval_seconds = Rat(1, 1)
    /\ video.fps = 2
    /\ video.n_yield = 4
    /\ Get(args).max_frames = None
    /\ ForwardedIndices = {0, 2}
    /\ processed_frames = 2

\* The call has ended, by a return or an exception.
Ended == pc \in {"returned", "raised"}

\* The run ended because capture.read() gave ret = False (the cap's break
\* leaves frame_index one behind the frames read).
ReadFailed == pc = "returned" /\ frame_index = reads

\* capture.read() gave ret = False on a frame of the file that does not
\* decode: a decode failure in the middle of the run.
DecodeFailed == ReadFailed /\ reads < video.n_file

\* The detector raised on the last frame forwarded to it.
DetectorFailed == inferred # <<>> /\ ~inferred[Len(inferred)].answered

\* The dicts of the boxes of raw that survive the threshold and that the
\* query matches: same class name ignoring case, and the query's colour, when
\* it has one, is the colour of the box's region.
RECURSIVE QueryMatched(_, _, _)
QueryMatched(raw, threshold, query) ==
    IF raw = <<>> THEN <<>>
    ELSE LET b == Head(raw)
             name == IF b.cls \in DOMAIN Names THEN Names[b.cls] ELSE StrOfInt(b.cls)
             hit == /\ b.conf >= threshold
                    /\ Len(name) = Len(Get(query.object))
                    /\ \A i \in 1..Len(name) :
                          LowerChar(name[i]) = LowerChar(Get(query.object)[i])
                    /\ (query.color = None \/ b.scene_color = query.color)
         IN  (IF hit THEN <<[class |-> name, confidence |-> b.conf, bbox |-> b.xyxy]>>
              ELSE <<>>)
             \o QueryMatched(Tail(raw), threshold, query)

\* The target hits recorded for the frame forwarded under index k.
HitsOfFrame(k) ==
    {j \in 1..Len(target_hits) : target_hits[j].timestamp.n = k}

\* C6 as claimed: the matched detections of every inferred frame are the
\* surviving detections whose class name equals the query's object name
\* ignoring case and whose colour is the query's colour when the query has
\* one; so of a blue and a red shirt, the query (shirt, blue) matches the blue
\* one only.
C6_Original_ColorQualifiedMatch ==
    (args # None /\ TruthyStr(Get(args).query.object)) =>
        \A i \in 1..Len(inferred) :
            inferred[i].answered =>
                LET expected == QueryMatched(inferred[i].raw,
                                             ConfidenceThreshold(Get(args).min_confidence),
                                             Get(args).query)
                IN  /\ expected = <<>> => HitsOfFrame(inferred[i].frame_index) = {}
                    /\ expected # <<>> =>
                          \E j \in HitsOfFrame(inferred[i].frame_index) :
                              target_hits[j].objects = expected

\* C7 as claimed: after a detector error or a decode failure in the middle of
\* the run, with frame results accumulated before it, process_video has
\* returned no result.
C7_Original_AbortOnFailure ==
    (Ended /\ detections # <<>> /\ (DetectorFailed \/ DecodeFailed))
        => Get(outcome).kind = "raise"

\* C8 as claimed: no call returns or raises with the capture still open.
C8_Original_HandleReleased == Ended => capture # "open"

\* C9 as claimed: a call with frame_interval_seconds <= 0 on an existing,
\* readable video is rejected with ValueError without the source having been
\* opened, a frame read or the detector invoked, and gives no result.
C9_Original_RejectedBeforeOpen ==
    (/\ Ended
     /\ video.state = "ok"
     /\ Get(args).frame_interval_seconds.n <= 0)
    => /\ outcome = Some(Raised("ValueError"))
       /\ capture = "none"
       /\ reads = 0
       /\ inferred = <<>>

\* The positions, in inferred, of the frames with a detection surviving the
\* threshold.
FramesWithSurvivors(threshold) ==
    {i \in 1..Len(inferred) : \E k \in 1..Len(inferred[i].raw) :
                                  inferred[i].raw[k].conf >= threshold}

\* The k-th smallest element of a set of numbers.
KthOf(S, k) == CHOOSE i \in S : Cardinality({m \in S : m <= i}) = k

\* The dicts of the boxes of raw with confidence >= threshold, in order.
RECURSIVE Survivors(_, _)
Survivors(raw, threshold) ==
    IF raw = <<>> THEN <<>>
    ELSE (IF Head(raw).conf >= threshold
          THEN <<[class |-> IF Head(raw).cls \in DOMAIN Names
                            THEN Names[Head(raw).cls] ELSE StrOfInt(Head(raw).cls),
                  confidence |-> Head(raw).conf,
                  bbox |-> Head(raw).xyxy]>>
          ELSE <<>>)
         \o Survivors(Tail(raw), threshold)

\* C10: the results of a completed run hold one entry for each forwarded
\* frame with a detection surviving the threshold, in order, with all the
\* frame's surviving detections, and no other entry; results and target hits
\* are in strictly increasing frame order, and no frame is inferred twice.
C10_ResultsPerFrame ==
    pc = "returned" =>
        LET threshold == ConfidenceThreshold(Get(args).min_confidence)
            good == FramesWithSurvivors(threshold)
            results == Get(outcome).results
            hits == Get(outcome).target_hits
        IN  /\ Len(results) = Cardinality(good)
            /\ \A j \in 1..Len(results) :
                LET f == inferred[KthOf(good, j)]
                IN  /\ results[j].frame_index = f.frame_index
                    /\ results[j].objects = Survivors(f.raw, threshold)
            /\ \A j \in 1..(Len(results) - 1) :
                results[j].frame_index < results[j + 1].frame_index
            /\ \A j \in 1..(Len(hits) - 1) :
                hits[j].timestamp.n * hits[j + 1].timestamp.d
                    < hits[j + 1].timestamp.n * hits[j].timestamp.d
            /\ \A i \in 1..Len(inferred) : \A j \in 1..Len(inferred) :
                i < j => /\ inferred[i].position < inferred[j].position
                         /\ inferred[i].frame_index < inferred[j].frame_index
            /\ \A i \in 1..Len(inferred) : inferred[i].answered

\* C10 witness: three frames forwarded, the second without a surviving
\* detection: two results, for frames 0 and 2.
C10_Witness ==
    /\ pc = "returned"
    /\ Len(inferred) = 3
    /\ Len(Get(outcome).results) = 2
    /\ Get(outcome).results[1].frame_index = 0
    /\ Get(outcome).results[2].frame_index = 2
    /\ Len(Get(outcome).target_hits) = 2
    /\ inferred[2].raw # <<>>

\* The dicts of the boxes of raw that survive the threshold and whose class
\* name is target ignoring case, in detector order.
ClassMatched(raw, threshold, target) ==
    QueryMatched(raw, threshold, [object |-> Some(target), color |-> None])

\* The forwarded frames with a surviving detection of the target's class.
FramesWithTarget(threshold, target) ==
    {i \in 1..Len(inferred) : ClassMatched(inferred[i].raw, threshold, target) # <<>>}

\* C11: with a target_object given, the target hits of a completed run hold
\* one entry for each forwarded frame with a surviving detection whose class
\* name is the target ignoring case, in frame order, and no other entry; the
\* entry's objects are exactly those detections, each once, in detector order.
\* With target_object absent or empty there is no target hit, and results are
\* recorded all the same.
C11_TargetHitsPerFrame ==
    pc = "returned" =>
        LET threshold == ConfidenceThreshold(Get(args).min_confidence)
            target == TargetObject(Get(args))
            hits == Get(outcome).target_hits
        IN  IF target # None /\ Get(target) # <<>>
            THEN LET good == FramesWithTarget(threshold, Get(target))
                 IN  /\ Len(hits) = Cardinality(good)
                     /\ \A j \in 1..Len(hits) :
                         LET f == inferred[KthOf(good, j)]
                         IN  /\ hits[j].timestamp = Rat(f.frame_index, fps)
                             /\ hits[j].objects = ClassMatched(f.raw, threshold, Get(target))
            ELSE /\ hits = <<>>
                 /\ Len(Get(outcome).results)
                        = Cardinality(FramesWithSurvivors(threshold))

\* C11 witness: the target "SHIRT" on a run with a frame of two shirts and a
\* frame with a dog only: one hit, with both shirts, and two results.
C11_Witness ==
    /\ pc = "returned"
    /\ TargetObject(Get(args)) = Some(<<"S", "H", "I", "R", "T">>)
    /\ Len(Get(outcome).results) = 2
    /\ Len(Get(outcome).target_hits) = 1
    /\ Len(Get(outcome).target_hits[1].objects) = 2

\* C12: in every result process_video returns, summary.processed_frames is
\* the number of frames forwarded to the detector, summary.detections_found
\* is the length of results, summary.target_hits is the length of
\* target_hits, target_hits <= detections_found <= processed_frames, and the
\* timestamp of every target hit is the timestamp of an entry of results.
C12_SummaryCounts ==
    pc = "returned" =>
        LET o == Get(outcome)
            s == o.summary
        IN  /\ s.processed_frames = Len(inferred)
            /\ s.detections_found = Len(o.results)
            /\ s.target_hits = Len(o.target_hits)
            /\ s.target_hits <= s.detections_found
            /\ s.detections_found <= s.processed_frames
            /\ \A j \in 1..Len(o.target_hits) : \E i \in 1..Len(o.results) :
                   o.results[i].timestamp = o.target_hits[j].timestamp

\* C12 witness: three frames forwarded, two with detections, one with the
\* target.
C12_Witness ==
    /\ pc = "returned"
    /\ Get(outcome).summary.processed_frames = 3
    /\ Get(outcome).summary.detections_found = 2
    /\ Get(outcome).summary.target_hits = 1

\* The number of frames a run of the given step would forward from a source
\* yielding n frames.
Sampleable(step, n) == Cardinality(Multiples(step, n))

\* C17 as claimed: a run given max_frames, whatever its value, forwards at
\* most max_frames frames, and exactly min(max_frames, number of sampleable
\* frames) of them, stopping at the cap without a further read; a run without
\* max_frames ends when the source is exhausted, having forwarded every
\* sampleable frame.
C17_Original_EverySuppliedCap ==
    pc = "returned" =>
        LET max_frames == Get(args).max_frames
            sampleable == Sampleable(frame_step, video.n_yield)
        IN  IF max_frames # None
            THEN /\ processed_frames <= Get(max_frames)
                 /\ processed_frames = Min(Get(max_frames), sampleable)
                 /\ Get(outcome).summary.processed_frames = processed_frames
            ELSE /\ reads = video.n_yield
                 /\ processed_frames = sampleable

\* C19 as claimed: in every summary returned, duration_seconds is
\* total_frames divided by the summary's fps, and the timestamp of every
\* result is its frame_index divided by that fps, also when the source
\* reports no fps and 30 is substituted.
C19_Original_SummaryConsistent ==
    pc = "returned" =>
        LET o == Get(outcome)
            s == o.summary
        IN  /\ s.fps > 0
            /\ s.duration_seconds.n * s.fps = s.total_frames * s.duration_seconds.d
            /\ \A i \in 1..Len(o.results) :
                   o.results[i].timestamp.n * s.fps
                       = o.results[i].frame_index * o.results[i].timestamp.d

-----------------------------------------------------------------------------
(* Helper functions called on their own. A helper specification leaves the  *)
(* process_video call idle, draws the arguments of one call in its initial  *)
(* state and applies the function.                                          *)

\* process_video is not called.
NoRun ==
    /\ pc = "idle"
    /\ video = [state |-> "missing", fps |-> 0, count |-> 0, n_file |-> 0, n_yield |-> 0]
    /\ args = None
    /\ capture = "none"
    /\ reads = 0
    /\ fps = 0
    /\ total_frames = 0
    /\ duration = Rat(0, 1)
    /\ frame_step = 0
    /\ frame_index = 0
    /\ processed_frames = 0
    /\ detections = <<>>
    /\ target_hits = <<>>
    /\ inferred = <<>>
    /\ outcome = None

\* Nothing but a helper call goes on.
Idle == NoRun /\ upload = None /\ runs = <<>>

-----------------------------------------------------------------------------
(* _infer_frame on its own *)

\* Boxes a raw result holds, at most.
MaxBoxes == 2

\* The boxes raw results are built from: every confidence around the
\* thresholds, a named class and an unnamed one.
BoxPool ==
    { Box(c, conf, <<1, 2, 8, 9>>, None) : c \in {1, 7}, conf \in {59, 60, 61} }

\* All lists of at most n boxes.
RECURSIVE BoxLists(_)
BoxLists(n) ==
    IF n = 0 THEN {<<>>}
    ELSE BoxLists(n - 1)
         \cup {Append(l, b) : l \in {x \in BoxLists(n - 1) : Len(x) = n - 1}, b \in BoxPool}

InferCalls ==
    [ op : {"_infer_frame"},
      frame : {[boxes |-> None, encodable |-> TRUE]}
              \cup [boxes : {Some(l) : l \in BoxLists(MaxBoxes)}, encodable : BOOLEAN],
      min_confidence : {0, 59, 60, 61, 100} ]

InitInfer == Idle /\ call \in InferCalls /\ ret = None

DoInfer ==
    /\ call.op = "_infer_frame"
    /\ ret = None
    /\ ret' = Some(InferFrame(call.frame, call.min_confidence, Rat(0, 1), 0))
    /\ UNCHANGED <<pvars, call, upload, runs>>

NextInfer == DoInfer

SpecInfer == InitInfer /\ [][NextInfer]_vars

\* The positions of the boxes of raw with confidence >= threshold.
KeptPositions(raw, threshold) == {i \in 1..Len(raw) : raw[i].conf >= threshold}

\* C2: the objects _infer_frame keeps are exactly the boxes with
\* confidence >= threshold, in the detector's order, each with its class
\* name, confidence and bbox as the detector gave them.
C2_FilterKeepsAtOrAboveThreshold ==
    ret # None =>
        LET raw == RawOf(call.frame)
            kept == KeptPositions(raw, call.min_confidence)
            objects == Get(ret).objects
        IN  /\ Len(objects) = Cardinality(kept)
            /\ \A j \in 1..Len(objects) :
                LET b == raw[KthOf(kept, j)]
                IN  /\ objects[j].class_name =
                         (IF b.cls \in DOMAIN Names THEN Names[b.cls] ELSE StrOfInt(b.cls))
                    /\ objects[j].confidence = b.conf
                    /\ objects[j].bbox = b.xyxy

\* C2 witness: threshold 0.6, a box at 0.59 followed by one at 0.6: only the
\* second is kept.
C2_Witness ==
    /\ ret # None
    /\ call.min_confidence = 60
    /\ Len(RawOf(call.frame)) = 2
    /\ RawOf(call.frame)[1].conf = 59
    /\ RawOf(call.frame)[2].conf = 60
    /\ Len(Get(ret).objects) = 1
    /\ Get(ret).objects[1].confidence = 60

-----------------------------------------------------------------------------
(* color_extractor.py: COLOR_RANGES and _hsv_to_color_name *)

Orange == <<"o", "r", "a", "n", "g", "e">>

Yellow == <<"y", "e", "l", "l", "o", "w">>

Green == <<"g", "r", "e", "e", "n">>

Cyan == <<"c", "y", "a", "n">>

Purple == <<"p", "u", "r", "p", "l", "e">>

Pink == <<"p", "i", "n", "k">>

White == <<"w", "h", "i", "t", "e">>

Black == <<"b", "l", "a", "c", "k">>

Gray == <<"g", "r", "a", "y">>

\* One range of COLOR_RANGES under its colour name.
Range(name, lower, upper) == [name |-> name, lower |-> lower, upper |-> upper]

\* COLOR_RANGES, flattened in the order the dict is iterated.
COLOR_RANGES ==
    << Range(Red, <<0, 50, 50>>, <<10, 255, 255>>),
       Range(Red, <<170, 50, 50>>, <<180, 255, 255>>),
       Range(Orange, <<11, 50, 50>>, <<25, 255, 255>>),
       Range(Yellow, <<26, 50, 50>>, <<35, 255, 255>>),
       Range(Green, <<36, 50, 50>>, <<85, 255, 255>>),
       Range(Cyan, <<86, 50, 50>>, <<95, 255, 255>>),
       Range(Blue, <<96, 50, 50>>, <<130, 255, 255>>),
       Range(Purple, <<131, 50, 50>>, <<155, 255, 255>>),
       Range(Pink, <<156, 50, 50>>, <<169, 255, 255>>),
       Range(White, <<0, 0, 200>>, <<180, 30, 255>>),
       Range(Black, <<0, 0, 0>>, <<180, 255, 50>>),
       Range(Gray, <<0, 0, 51>>, <<180, 30, 199>>) >>

\* InRange with the upper bounds left out of the range.
InRangeExclusive(hsv, r) ==
    /\ \A i \in 1..3 : hsv[i] >= r.lower[i]
    /\ \A i \in 1..3 : hsv[i] < r.upper[i]

\* np.all(hsv >= lower) and np.all(hsv <= upper)
InRange(hsv, r) ==
    /\ \A i \in 1..3 : hsv[i] >= r.lower[i]
    /\ \A i \in 1..3 : hsv[i] <= r.upper[i]

\* The loop over COLOR_RANGES from range i on: the name of the first range
\* that holds hsv, or None.
RECURSIVE FirstRange(_, _)
FirstRange(hsv, i) ==
    IF i > Len(COLOR_RANGES) THEN None
    ELSE IF InRange(hsv, COLOR_RANGES[i]) THEN Some(COLOR_RANGES[i].name)
    ELSE FirstRange(hsv, i + 1)

\* HueName without its final else branch: a hue past the last boundary gets
\* no colour name.
HueNameNoElse(h) ==
    IF h < 10 \/ h >= 170 THEN Red
    ELSE IF h < 25 THEN Orange
    ELSE IF h < 35 THEN Yellow
    ELSE IF h < 85 THEN Green
    ELSE IF h < 95 THEN Cyan
    ELSE IF h < 130 THEN Blue
    ELSE IF h < 155 THEN Purple
    ELSE <<"u", "n", "k", "n", "o", "w", "n">>

\* The fallback's hue chain, for a colour that is not of low saturation.
HueName(h) ==
    IF h < 10 \/ h >= 170 THEN Red
    ELSE IF h < 25 THEN Orange
    ELSE IF h < 35 THEN Yellow
    ELSE IF h < 85 THEN Green
    ELSE IF h < 95 THEN Cyan
    ELSE IF h < 130 THEN Blue
    ELSE IF h < 155 THEN Purple
    ELSE Pink

\* The fallback of _hsv_to_color_name, taken when no range holds hsv.
Fallback(hsv) ==
    LET h == hsv[1]
        s == hsv[2]
        v == hsv[3]
    IN  IF s < 30
        THEN IF v > 200 THEN White
             ELSE IF v < 50 THEN Black
             ELSE Gray
        ELSE HueName(h)

\* _hsv_to_color_name
HsvToColorName(hsv) ==
    IF FirstRange(hsv, 1) # None THEN Get(FirstRange(hsv, 1)) ELSE Fallback(hsv)

\* The largest hue, and the largest saturation and value, of an HSV colour.
HueMax == 180

ChannelMax == 255

\* Saturations and values on both sides of every boundary the ranges and the
\* fallback compare with, and the ends of the channel.
SatSamples == {0, 1, 29, 30, 31, 49, 50, 51, ChannelMax - 1, ChannelMax}

ValSamples == {0, 1, 49, 50, 51, 52, 198, 199, 200, 201, ChannelMax - 1, ChannelMax}

HsvCalls ==
    [ op : {"_hsv_to_color_name"},
      hsv : {<<h, s, v>> : h \in 0..HueMax, s \in SatSamples, v \in ValSamples} ]

InitHsv == Idle /\ call \in HsvCalls /\ ret = None

DoHsv ==
    /\ call.op = "_hsv_to_color_name"
    /\ ret = None
    /\ ret' = Some(HsvToColorName(call.hsv))
    /\ UNCHANGED <<pvars, call, upload, runs>>

NextHsv == DoHsv

SpecHsv == InitHsv /\ [][NextHsv]_vars

\* The closed vocabulary of colour names.
Vocabulary ==
    {Red, Orange, Yellow, Green, Cyan, Blue, Purple, Pink, White, Black, Gray}

\* C3: _hsv_to_color_name returns, for every hue 0..180, saturation 0..255
\* and value 0..255, a name of the closed vocabulary.
C3_ClassifierTotal == ret # None => Get(ret) \in Vocabulary

\* C3 witness: a colour no range holds (saturation 31..49, value above 50)
\* with a hue past the last boundary of the fallback is named pink.
C3_Witness ==
    /\ ret = Some(Pink)
    /\ FirstRange(call.hsv, 1) = None
    /\ call.hsv[1] >= 155

\* The names of the rows of the ordered range table.
RowNames == <<Red, Orange, Yellow, Green, Cyan, Blue, Purple, Pink, White, Black, Gray>>

\* The hues of the chromatic rows: red has the two bands 0..10 and 170..180.
RowHues(k) ==
    CASE k = 1 -> (0..10) \cup (170..180)
      [] k = 2 -> 11..25
      [] k = 3 -> 26..35
      [] k = 4 -> 36..85
      [] k = 5 -> 86..95
      [] k = 6 -> 96..130
      [] k = 7 -> 131..155
      [] k = 8 -> 156..169

\* Row k of the table is satisfied by the triple hsv.
RowHolds(k, hsv) ==
    LET h == hsv[1]
        s == hsv[2]
        v == hsv[3]
    IN  CASE k \in 1..8 -> h \in RowHues(k) /\ s >= 50 /\ v >= 50
          [] k = 9 -> s <= 30 /\ v >= 200
          [] k = 10 -> v <= 50
          [] k = 11 -> s <= 30 /\ v >= 51 /\ v <= 199

\* The rows the triple satisfies.
RowsHolding(hsv) == {k \in 1..11 : RowHolds(k, hsv)}

\* C15: for every triple that satisfies a row of the range table,
\* _hsv_to_color_name returns the name of the first row, in the order red,
\* orange, yellow, green, cyan, blue, purple, pink, white, black, gray, that
\* it satisfies; hues 0..10 and 170..180 are both red, and a triple of
\* saturation >= 50 and value exactly 50 gets the chromatic name of its hue,
\* not black.
C15_FirstMatchingRow ==
    (ret # None /\ RowsHolding(call.hsv) # {}) =>
        /\ Get(ret) = RowNames[KthOf(RowsHolding(call.hsv), 1)]
        /\ (call.hsv[2] >= 50 /\ call.hsv[3] = 50) =>
               /\ Get(ret) # Black
               /\ \E k \in 1..8 : call.hsv[1] \in RowHues(k) /\ Get(ret) = RowNames[k]

\* C15 witness: hue 175, saturation 50, value 50 satisfies the second band of
\* red and the row of black, and is named red.
C15_Witness ==
    /\ ret = Some(Red)
    /\ call.hsv = <<175, 50, 50>>
    /\ RowsHolding(call.hsv) = {1, 10}

\* The name of the chromatic row whose hues hold h.
TableHueName(h) == RowNames[CHOOSE k \in 1..8 : h \in RowHues(k)]

\* C16 as claimed: for every triple that satisfies no row of the table and
\* has saturation >= 30, the name returned is the table's name for the hue:
\* 0..10 and 170..180 red, 11..25 orange, 26..35 yellow, 36..85 green, 86..95
\* cyan, 96..130 blue, 131..155 purple, 156..169 pink.
C16_Original_FallbackUsesTableBoundaries ==
    (ret # None /\ RowsHolding(call.hsv) = {} /\ call.hsv[2] >= 30) =>
        Get(ret) = TableHueName(call.hsv[1])

-----------------------------------------------------------------------------
(* color_extractor.py: extract_dominant_color *)

\* max_dimension: the side above which the region is downscaled.
MaxDimension == 200

\* The side below which a region is too small.
MinSide == 5

\* An element of a bbox: a float, kept as twice its value (halves), or
\* something int() raises on.
Num(twice) == [numeric |-> TRUE, twice |-> twice]

NotANumber == [numeric |-> FALSE, twice |-> 0]

\* int(x) of a float: truncation toward zero.
IntOf(x) == IF x.twice >= 0 THEN x.twice \div 2 ELSE -((-x.twice) \div 2)

\* The (None, None) sentinel and a found colour.
Sentinel == <<None, None>>

Found(name, rgb) == <<Some(name), Some(rgb)>>

Return(value) == [kind |-> "return", value |-> value]

\* What cv2 does on a region: the step that fails, if one does, and otherwise
\* the centre of the largest k-means cluster (as uint8 HSV) and its RGB value.
CvOutcomes ==
    [ fails : {"resize", "cvtColor", "kmeans"}, hsv : {<<0, 0, 0>>}, rgb : {<<0, 0, 0>>} ]
    \cup
    [ fails : {"none"},
      hsv : {<<5, 200, 200>>, <<10, 40, 120>>, <<120, 255, 60>>},
      rgb : {<<200, 50, 43>>} ]

\* The try block from the crop on, for a valid clamped box x1 < x2, y1 < y2.
ExtractRegion(x1, y1, x2, y2, cv) ==
    LET rows == y2 - y1
        cols == x2 - x1
        resized == rows > MaxDimension \/ cols > MaxDimension
        new_width == (cols * MaxDimension) \div Max(rows, cols)
        new_height == (rows * MaxDimension) \div Max(rows, cols)
    IN  IF rows * cols = 0 \/ rows < MinSide \/ cols < MinSide
        THEN Return(Sentinel)
        ELSE IF resized /\ (new_width = 0 \/ new_height = 0 \/ cv.fails = "resize")
        THEN Raised("cv2.error")
        ELSE IF cv.fails \in {"cvtColor", "kmeans"}
        THEN Raised("cv2.error")
        ELSE Return(Found(HsvToColorName(cv.hsv), cv.rgb))

\* The try block of extract_dominant_color: its return value, or the
\* exception raised inside it. shape is frame.shape[:2] = (height, width).
ExtractBody(shape, bbox, cv) ==
    IF Len(bbox) # 4 \/ \E i \in 1..Len(bbox) : ~bbox[i].numeric
    THEN Raised("ValueError")
    ELSE LET height == shape[1]
             width == shape[2]
             x1 == Max(0, Min(IntOf(bbox[1]), width - 1))
             y1 == Max(0, Min(IntOf(bbox[2]), height - 1))
             x2 == Max(0, Min(IntOf(bbox[3]), width))
             y2 == Max(0, Min(IntOf(bbox[4]), height))
         IN  IF x2 <= x1 \/ y2 <= y1
             THEN Return(Sentinel)
             ELSE ExtractRegion(x1, y1, x2, y2, cv)

\* extract_dominant_color with an except clause for OpenCV's errors only.
ExtractCatchingCvOnly(shape, bbox, cv) ==
    LET body == ExtractBody(shape, bbox, cv)
    IN  IF body.kind = "raise" /\ body.exc = "cv2.error" THEN Return(Sentinel) ELSE body

\* extract_dominant_color: except Exception turns every failure of the try
\* block into the sentinel.
ExtractDominantColor(shape, bbox, cv) ==
    LET body == ExtractBody(shape, bbox, cv)
    IN  IF body.kind = "raise" THEN Return(Sentinel) ELSE body

\* Bbox elements: -1.5, 0, 3, 5, 5.5, 8, 1300 and a non-number.
BBoxElements == {Num(-3), Num(0), Num(6), Num(10), Num(11), Num(16), Num(2600), NotANumber}

\* Bboxes: every list of four elements, and lists of the wrong length.
BBoxes ==
    {<<a, b, c, d>> : a \in BBoxElements, b \in BBoxElements,
                      c \in BBoxElements, d \in BBoxElements}
    \cup { <<>>, <<Num(0), Num(0), Num(16)>>,
           <<Num(0), Num(0), Num(16), Num(16), Num(16)>> }

\* frame.shape[:2]: (height, width)
FrameShapes == {<<8, 8>>, <<2, 2>>, <<1200, 6>>}

ExtractCalls ==
    [ op : {"extract_dominant_color"}, shape : FrameShapes, bbox : BBoxes, cv : CvOutcomes ]

InitExtract == Idle /\ call \in ExtractCalls /\ ret = None

DoExtract ==
    /\ call.op = "extract_dominant_color"
    /\ ret = None
    /\ ret' = Some(ExtractDominantColor(call.shape, call.bbox, call.cv))
    /\ UNCHANGED <<pvars, call, upload, runs>>

NextExtract == DoExtract

SpecExtract == InitExtract /\ [][NextExtract]_vars

\* A well-formed bbox: four numbers.
WellFormed(bbox) == Len(bbox) = 4 /\ \A i \in 1..4 : bbox[i].numeric

\* The bbox clamped to the frame, as <<x1, y1, x2, y2>>.
Clamped(shape, bbox) ==
    << Max(0, Min(IntOf(bbox[1]), shape[2] - 1)),
       Max(0, Min(IntOf(bbox[2]), shape[1] - 1)),
       Max(0, Min(IntOf(bbox[3]), shape[2])),
       Max(0, Min(IntOf(bbox[4]), shape[1])) >>

\* The clamped box is degenerate or has a side below 5 pixels.
DegenerateOrSmall(c) ==
    \/ c[3] <= c[1]
    \/ c[4] <= c[2]
    \/ c[3] - c[1] < 5
    \/ c[4] - c[2] < 5

\* The region is above 200 pixels on a side and resizing it fails: OpenCV
\* fails, or a side of the downscaled region rounds down to 0 pixels.
ResizeFails(c, cv) ==
    LET cols == c[3] - c[1]
        rows == c[4] - c[2]
        longest == IF rows >= cols THEN rows ELSE cols
    IN  /\ longest > 200
        /\ \/ cv.fails = "resize"
           \/ 200 * cols < longest
           \/ 200 * rows < longest

\* C4: extract_dominant_color never raises, whatever the bbox; it returns the
\* sentinel for a malformed bbox, for a clamped box that is degenerate or has
\* a side below 5 pixels, and when a step of the procedure fails; otherwise
\* it returns a colour name and an RGB value.
C4_ExtractNeverRaises ==
    ret # None =>
        /\ Get(ret).kind = "return"
        /\ ~WellFormed(call.bbox) => Get(ret).value = Sentinel
        /\ (WellFormed(call.bbox) /\ DegenerateOrSmall(Clamped(call.shape, call.bbox)))
               => Get(ret).value = Sentinel
        /\ (WellFormed(call.bbox) /\ call.cv.fails \in {"cvtColor", "kmeans"})
               => Get(ret).value = Sentinel
        /\ (WellFormed(call.bbox) /\ ResizeFails(Clamped(call.shape, call.bbox), call.cv))
               => Get(ret).value = Sentinel
        /\ Get(ret).value # Sentinel =>
               /\ Get(ret).value[1] # None
               /\ Get(ret).value[2] # None

\* C4 witness: the inverted bbox [5, 5, 3, 3] on an 8 x 8 frame gives the
\* sentinel.
C4_Witness ==
    /\ ret = Some(Return(Sentinel))
    /\ call.bbox = <<Num(10), Num(10), Num(6), Num(6)>>
    /\ call.shape = <<8, 8>>
    /\ call.cv.fails = "none"

-----------------------------------------------------------------------------
(* color_extractor.py: color_matches *)

\* color_matches comparing the strings as they are, without lower().
ColorMatchesCaseSensitive(detected_color, query_color) ==
    IF detected_color = None THEN FALSE
    ELSE Strip(Get(detected_color)) = Strip(query_color)

\* color_matches: detected_color is an Optional[str], query_color a str.
ColorMatches(detected_color, query_color) ==
    IF detected_color = None THEN FALSE
    ELSE Strip(Lower(Get(detected_color))) = Strip(Lower(query_color))

\* The longest colour string of a call.
MaxStrLen == 3

\* The characters colour strings are made of.
Alphabet == {"R", "r", "e", "d", " "}

\* All strings of at most n characters.
RECURSIVE Strings(_)
Strings(n) ==
    IF n = 0 THEN {<<>>}
    ELSE Strings(n - 1)
         \cup {Append(w, c) : w \in {x \in Strings(n - 1) : Len(x) = n - 1}, c \in Alphabet}

MatchCalls ==
    [ op : {"color_matches"},
      detected_color : {None} \cup {Some(w) : w \in Strings(MaxStrLen)},
      query_color : Strings(MaxStrLen) ]

InitMatch == Idle /\ call \in MatchCalls /\ ret = None

DoMatch ==
    /\ call.op = "color_matches"
    /\ ret = None
    /\ ret' = Some(ColorMatches(call.detected_color, call.query_color))
    /\ UNCHANGED <<pvars, call, upload, runs>>

NextMatch == DoMatch

SpecMatch == InitMatch /\ [][NextMatch]_vars

\* Two characters that are the same letter in either case, or the same
\* character.
SameIgnoringCase(c, d) ==
    \/ c = d
    \/ \E k \in 1..Len(UpperCase) : {c, d} = {UpperCase[k], LowerCase[k]}

\* Two strings equal once letter case is ignored.
EqualIgnoringCase(a, b) ==
    /\ Len(a) = Len(b)
    /\ \A i \in 1..Len(a) : SameIgnoringCase(a[i], b[i])

\* A string without its leading and trailing whitespace.
Trimmed(w) ==
    LET inked == {i \in 1..Len(w) : w[i] \notin {" ", "\t", "\n"}}
    IN  IF inked = {} THEN <<>>
        ELSE SubSeq(w, CHOOSE i \in inked : \A j \in inked : i <= j,
                       CHOOSE i \in inked : \A j \in inked : i >= j)

-----------------------------------------------------------------------------
(* main.py: parse_intent. The reply of the external intent parser is an     *)
(* input of the call: what the HTTP request and the decoding of its body    *)
(* gave. A JSON value is a record tagged with its type.                     *)

STOPWORDS ==
    { <<"f", "i", "n", "d">>, <<"s", "h", "o", "w">>, <<"f", "r", "a", "m", "e">>, <<"f", "r", "a", "m", "e", "s">>,
      <<"w", "i", "t", "h">>, <<"p", "l", "e", "a", "s", "e">>, <<"c", "a", "n">>, <<"y", "o", "u">>,
      <<"t", "h", "e">>, <<"a">>, <<"a", "n">>, <<"a", "n", "y">>,
      <<"a", "l", "l">>, <<"o", "f">>, <<"f", "o", "r">>, <<"l", "o", "o", "k">>,
      <<"s", "e", "a", "r", "c", "h">>, <<"d", "e", "t", "e", "c", "t">>, <<"s", "p", "o", "t">>, <<"e", "v", "e", "r", "y">>,
      <<"t", "o">>, <<"i", "n">>, <<"o", "n">>, <<"a", "t">>,
      <<"v", "i", "d", "e", "o">>, <<"f", "o", "o", "t", "a", "g", "e">>, <<"o", "b", "j", "e", "c", "t", "s">>, <<"a", "n", "d">> }

color_keywords ==
    { <<"r", "e", "d">>, <<"b", "l", "u", "e">>, <<"g", "r", "e", "e", "n">>, <<"y", "e", "l", "l", "o", "w">>,
      <<"o", "r", "a", "n", "g", "e">>, <<"p", "u", "r", "p", "l", "e">>, <<"p", "i", "n", "k">>, <<"b", "l", "a", "c", "k">>,
      <<"w", "h", "i", "t", "e">>, <<"g", "r", "a", "y">>, <<"g", "r", "e", "y">>, <<"b", "r", "o", "w", "n">>,
      <<"c", "y", "a", "n">>, <<"n", "a", "v", "y">>, <<"m", "a", "r", "o", "o", "n">>, <<"v", "i", "o", "l", "e", "t">>,
      <<"i", "n", "d", "i", "g", "o">>, <<"t", "u", "r", "q", "u", "o", "i", "s", "e">>, <<"l", "i", "m", "e">>, <<"o", "l", "i", "v", "e">>,
      <<"t", "e", "a", "l">>, <<"a", "q", "u", "a">>, <<"m", "a", "g", "e", "n", "t", "a">>, <<"s", "i", "l", "v", "e", "r">>,
      <<"g", "o", "l", "d">>, <<"b", "e", "i", "g", "e">>, <<"t", "a", "n">> }

\* The characters of the model's strings, in code-point order.
CodePoints == <<" ", ".">> \o UpperCase \o LowerCase

CodePoint(c) == CHOOSE i \in 1..Len(CodePoints) : CodePoints[i] = c

\* a < b for two Python strings
RECURSIVE StrLess(_, _)
StrLess(a, b) ==
    IF b = <<>> THEN FALSE
    ELSE IF a = <<>> THEN TRUE
    ELSE IF Head(a) = Head(b) THEN StrLess(Tail(a), Tail(b))
    ELSE CodePoint(Head(a)) < CodePoint(Head(b))

\* sorted(S) for a set of strings
RECURSIVE SortedStrs(_)
SortedStrs(S) ==
    IF S = {} THEN <<>>
    ELSE LET m == CHOOSE x \in S : \A y \in S \ {x} : StrLess(x, y)
         IN  <<m>> \o SortedStrs(S \ {m})

\* set(list)
Elements(seq) == {seq[i] : i \in 1..Len(seq)}

\* str.split(): the maximal runs of characters that are not whitespace.
RECURSIVE SplitFrom(_, _, _)
SplitFrom(s, word, words) ==
    IF s = <<>> THEN (IF word = <<>> THEN words ELSE Append(words, word))
    ELSE IF IsSpace(Head(s))
         THEN SplitFrom(Tail(s), <<>>, IF word = <<>> THEN words ELSE Append(words, word))
         ELSE SplitFrom(Tail(s), Append(word, Head(s)), words)

Split(s) == SplitFrom(s, <<>>, <<>>)

\* \w of the regular expression, on the characters of the model's strings.
IsWordChar(c) ==
    \E i \in 1..Len(LowerCase) : c = LowerCase[i] \/ c = UpperCase[i]

\* [a-z]
IsLowerLetter(c) == \E i \in 1..Len(LowerCase) : c = LowerCase[i]

\* The maximal runs of \w characters of s.
RECURSIVE WordRunsFrom(_, _, _)
WordRunsFrom(s, run, found) ==
    IF s = <<>> THEN (IF run = <<>> THEN found ELSE Append(found, run))
    ELSE IF ~IsWordChar(Head(s))
         THEN WordRunsFrom(Tail(s), <<>>, IF run = <<>> THEN found ELSE Append(found, run))
         ELSE WordRunsFrom(Tail(s), Append(run, Head(s)), found)

\* re.findall(r"\b[a-z]{3,}\b", s): between two word boundaries lies a whole
\* run of \w characters, so a match is a run of three or more characters, all
\* of them a-z.
FindTokens(s) ==
    SelectSeq(WordRunsFrom(s, <<>>, <<>>),
              LAMBDA r : Len(r) >= 3 /\ \A i \in 1..Len(r) : IsLowerLetter(r[i]))

\* The lists parse_intent accumulates.
Lists(targets, colors, pairs) == [targets |-> targets, colors |-> colors, pairs |-> pairs]

Pair(object, color) == [object |-> object, color |-> color]

\* The loop over range(len(words) - 1), from index i on: a colour word
\* followed by a word that is neither a stopword nor a colour gives a pair.
RECURSIVE ScanPairs(_, _, _)
ScanPairs(words, i, acc) ==
    IF i > Len(words) - 1 THEN acc
    ELSE IF /\ words[i] \in color_keywords
            /\ words[i + 1] \notin STOPWORDS
            /\ words[i + 1] \notin color_keywords
         THEN ScanPairs(words, i + 1,
                        Lists(Append(acc.targets, words[i + 1]),
                              Append(acc.colors, words[i]),
                              Append(acc.pairs, Pair(words[i + 1], words[i]))))
         ELSE ScanPairs(words, i + 1, acc)

\* The loop over tokens when no pair was found: colours to colors, the other
\* tokens that are not stopwords to targets.
SeparateTokens(tokens) ==
    Lists(SelectSeq(tokens, LAMBDA t : t \notin color_keywords /\ t \notin STOPWORDS),
          SelectSeq(tokens, LAMBDA t : t \in color_keywords),
          <<>>)

\* The local fallback on the stripped query.
LocalFallback(query) ==
    LET tokens == FindTokens(Lower(query))
        words == Split(Lower(query))
        scanned == ScanPairs(words, 1, Lists(<<>>, <<>>, <<>>))
        found == IF scanned.pairs = <<>> THEN SeparateTokens(tokens) ELSE scanned
    IN  Lists(SortedStrs(Elements(found.targets)),
              SortedStrs(Elements(found.colors)),
              found.pairs)

\* JSON values.
JAbsent == [t |-> "absent"]

JNull == [t |-> "null"]

JStr(s) == [t |-> "str", v |-> s]

JNum(n) == [t |-> "num", n |-> n]

JList(l) == [t |-> "list", items |-> l]

JDict(object, color) == [t |-> "dict", object |-> object, color |-> color]

\* Python truthiness of a JSON value.
Truthy(j) ==
    CASE j.t = "str" -> j.v # <<>>
      [] j.t = "num" -> j.n # 0
      [] j.t = "list" -> j.items # <<>>
      [] j.t = "dict" -> TRUE
      [] OTHER -> FALSE

\* pair.get("object", "").strip() raises AttributeError unless the value is a
\* str; color.strip() raises when color is truthy and not a str.
EntryRaises(entry) ==
    /\ entry.t = "dict"
    /\ \/ entry.object.t \notin {"absent", "str"}
       \/ Truthy(entry.color) /\ entry.color.t # "str"

\* The loop over candidate_pairs: the lists after the entries, and whether an
\* entry raised (the entries before it have been recorded).
RECURSIVE ReadPairs(_, _)
ReadPairs(entries, acc) ==
    IF entries = <<>> THEN [lists |-> acc, raised |-> FALSE]
    ELSE LET entry == Head(entries)
         IN  IF entry.t # "dict" THEN ReadPairs(Tail(entries), acc)
             ELSE IF EntryRaises(entry) THEN [lists |-> acc, raised |-> TRUE]
             ELSE LET obj == IF entry.object.t = "str"
                             THEN Lower(Strip(entry.object.v)) ELSE <<>>
                      color == IF Truthy(entry.color)
                               THEN Lower(Strip(entry.color.v)) ELSE <<>>
                  IN  IF obj = <<>> THEN ReadPairs(Tail(entries), acc)
                      ELSE IF color # <<>> /\ color # <<"n", "u", "l", "l">>
                      THEN ReadPairs(Tail(entries),
                                     Lists(Append(acc.targets, obj),
                                           Append(acc.colors, color),
                                           Append(acc.pairs, Pair(obj, color))))
                      ELSE ReadPairs(Tail(entries),
                                     Lists(Append(acc.targets, obj), acc.colors, acc.pairs))

\* [x.strip().lower() for x in field if isinstance(x, str) and x.strip()],
\* for a field that is a list; nothing otherwise.
RECURSIVE ReadNames(_)
ReadNames(values) ==
    IF values = <<>> THEN <<>>
    ELSE (IF Head(values).t = "str" /\ Strip(Head(values).v) # <<>>
          THEN <<Lower(Strip(Head(values).v))>> ELSE <<>>)
         \o ReadNames(Tail(values))

OldFormat(field) == IF field.t = "list" THEN ReadNames(field.items) ELSE <<>>

\* The try block on a decoded JSON object: the pairs, then the old format
\* when there is no pair; an AttributeError ends the block, caught by the
\* outer except, with what was appended so far.
ReadJson(parsed) ==
    LET read == IF parsed.pairs.t = "list"
                THEN ReadPairs(parsed.pairs.items, Lists(<<>>, <<>>, <<>>))
                ELSE [lists |-> Lists(<<>>, <<>>, <<>>), raised |-> FALSE]
    IN  IF read.raised \/ read.lists.pairs # <<>> THEN read.lists
        ELSE Lists(read.lists.targets \o OldFormat(parsed.targets),
                   read.lists.colors \o OldFormat(parsed.colors),
                   <<>>)

\* The block under `if settings.gemini_api_key:`.
External(gemini) ==
    IF gemini.kind = "json" THEN ReadJson(gemini.parsed) ELSE Lists(<<>>, <<>>, <<>>)

\* The pairs without their repetitions, in order.
RECURSIVE UniquePairs(_, _)
UniquePairs(pairs, seen) ==
    IF pairs = <<>> THEN <<>>
    ELSE IF Head(pairs) \in seen THEN UniquePairs(Tail(pairs), seen)
    ELSE <<Head(pairs)>> \o UniquePairs(Tail(pairs), seen \cup {Head(pairs)})

\* The clean-up before the response is built.
CleanUp(l) ==
    Lists(SortedStrs({t \in Elements(l.targets) : t # <<>> /\ t \notin STOPWORDS}),
          SortedStrs(Elements(l.colors)),
          UniquePairs(l.pairs, {}))

\* parse_intent
ParseIntent(raw, gemini) ==
    LET query == Strip(raw)
        external == External(gemini)
    IN  IF query = <<>> THEN Lists(<<>>, <<>>, <<>>)
        ELSE IF external = Lists(<<>>, <<>>, <<>>)
             THEN CleanUp(LocalFallback(query))
             ELSE CleanUp(external)

\* The most words of a query, and the most entries of a reply's pairs.
MaxWords == 4

MaxEntries == 2

\* The words of the model's queries: a verb and an article of STOPWORDS, two
\* colours, a class name, the same before a full stop, and a two-letter name.
QueryWords ==
    { <<"f", "i", "n", "d">>, <<"a">>, <<"r", "e", "d">>, <<"B", "l", "u", "e">>,
      <<"c", "a", "r">>, <<"c", "a", "r", ".">>, <<"t", "v">> }

\* " ".join(words)
RECURSIVE Join(_)
Join(words) ==
    IF words = <<>> THEN <<>>
    ELSE IF Len(words) = 1 THEN Head(words)
    ELSE Head(words) \o <<" ">> \o Join(Tail(words))

\* The queries of at most n words, and one of whitespace only.
QueriesUpTo(n) ==
    {Join(ws) : ws \in UNION {[1..k -> QueryWords] : k \in 0..n}} \cup {<<" ", " ">>}

\* No external parser is configured: settings.gemini_api_key is None.
NoParser == [kind |-> "absent"]

\* The entries a reply's pairs are made of: a pair to normalise, an object
\* without colour, an object that is a number, an entry that is a string, an
\* entry without object, and a colour that is a number.
Entries ==
    { JDict(JStr(<<"C", "a", "r">>), JStr(<<" ", "R", "e", "d", " ">>)),
      JDict(JStr(<<"p", "e", "r", "s", "o", "n">>), JNull),
      JDict(JNum(5), JAbsent),
      JStr(<<"j", "u", "n", "k">>),
      JDict(JAbsent, JStr(<<"r", "e", "d">>)),
      JDict(JStr(<<"c", "a", "r">>), JNum(5)) }

Parsed(pairs, targets, colors) == [pairs |-> pairs, targets |-> targets, colors |-> colors]

\* What the external parser can answer: the request fails, the status is not
\* 200, the body is not the expected JSON, the text holds no JSON object, the
\* object does not decode, or it decodes to pairs or to the old format.
Replies ==
    [kind : {"network_error", "status", "bad_body", "no_json", "undecodable"}]
    \cup {[kind |-> "json", parsed |-> Parsed(JList(es), JAbsent, JAbsent)] :
            es \in UNION {[1..k -> Entries] : k \in 0..MaxEntries}}
    \cup {[kind |-> "json", parsed |-> Parsed(p, t, c)] :
            p \in {JAbsent, JStr(<<"j", "u", "n", "k">>), JList(<<>>)},
            t \in {JAbsent, JStr(<<"j", "u", "n", "k">>), JList(<<>>),
                   JList(<<JStr(<<" ", "D", "o", "g">>), JNum(5), JStr(<<"t", "h", "e">>)>>)},
            c \in {JAbsent, JList(<<JStr(<<" ", "R", "e", "d", " ">>)>>)}}

IntentCalls ==
    [op : {"parse_intent"}, query : QueriesUpTo(MaxWords), gemini : {NoParser}]
    \cup [op : {"parse_intent"}, query : QueriesUpTo(1), gemini : Replies]

InitIntent == Idle /\ call \in IntentCalls /\ ret = None

DoIntent ==
    /\ call.op = "parse_intent"
    /\ ret = None
    /\ ret' = Some(ParseIntent(call.query, call.gemini))
    /\ UNCHANGED <<pvars, call, upload, runs>>

NextIntent == DoIntent

SpecIntent == InitIntent /\ [][NextIntent]_vars

\* The pairs of a colour token immediately followed by a token that is
\* neither a stopword nor a colour.
RECURSIVE TokenPairs(_)
TokenPairs(tokens) ==
    IF Len(tokens) < 2 THEN <<>>
    ELSE (IF /\ tokens[1] \in color_keywords
             /\ tokens[2] \notin STOPWORDS
             /\ tokens[2] \notin color_keywords
          THEN <<Pair(tokens[2], tokens[1])>> ELSE <<>>)
         \o TokenPairs(Tail(tokens))

\* C13 as claimed: with no external parser, the pairs of the response are
\* those of a colour token immediately followed by a token that is neither a
\* stopword nor a colour, the tokens being the lowercase words of three or
\* more letters, and targets and colors are the sorted distinct objects and
\* colours of the pairs; when there is no such pair, pairs is empty, colors
\* holds the colour tokens and targets the other tokens that are not
\* stopwords.
C13_Original_PairsFromTokens ==
    (ret # None /\ call.op = "parse_intent" /\ call.gemini = NoParser) =>
        LET tokens == FindTokens(Lower(Strip(call.query)))
            pairs == TokenPairs(tokens)
            r == Get(ret)
        IN  IF pairs # <<>>
            THEN /\ Elements(r.pairs) = Elements(pairs)
                 /\ r.targets = SortedStrs({p.object : p \in Elements(pairs)})
                 /\ r.colors = SortedStrs({p.color : p \in Elements(pairs)})
            ELSE /\ r.pairs = <<>>
                 /\ r.colors = SortedStrs({t \in Elements(tokens) : t \in color_keywords})
                 /\ r.targets = SortedStrs({t \in Elements(tokens) :
                                              t \notin color_keywords /\ t \notin STOPWORDS})

\* An entry that is not an object with a string "object" and a "color" that
\* is a string or null.
WrongShape(entry) ==
    \/ entry.t # "dict"
    \/ entry.object.t # "str"
    \/ entry.color.t \notin {"str", "null"}

\* The external parser is unavailable, or its reply is malformed.
Unusable(gemini) ==
    \/ gemini.kind \in {"network_error", "status", "bad_body", "no_json", "undecodable"}
    \/ /\ gemini.kind = "json"
       /\ gemini.parsed.pairs.t = "list"
       /\ \E i \in 1..Len(gemini.parsed.pairs.items) :
              WrongShape(gemini.parsed.pairs.items[i])

\* C14 as claimed: when the external parser is absent, unavailable or answers
\* a malformed reply, the response is the one the local fallback gives with
\* no parser configured, and for an empty query it is empty.
C14_Original_FallbackOnUnusableReply ==
    (ret # None /\ call.op = "parse_intent") =>
        /\ (call.gemini = NoParser \/ Unusable(call.gemini)) =>
               Get(ret) = ParseIntent(call.query, NoParser)
        /\ Strip(call.query) = <<>> => Get(ret) = Lists(<<>>, <<>>, <<>>)

-----------------------------------------------------------------------------
(* main.py: the process-video endpoint. What the copy of the upload,       *)
(* detector_service.process_video, the rendering of the response and        *)
(* os.remove do is an input of the request.                                 *)

\* str.startswith(prefix)
StartsWith(s, prefix) ==
    Len(s) >= Len(prefix) /\ SubSeq(s, 1, Len(prefix)) = prefix

\* Path(name).suffix: from the last dot of the name on, when that dot is
\* neither its first nor its last character.
Suffix(name) ==
    LET dots == {i \in 2..(Len(name) - 1) : name[i] = "."}
    IN  IF dots = {} \/ name[Len(name)] = "." THEN <<>>
        ELSE SubSeq(name, CHOOSE i \in dots : \A j \in dots : j <= i, Len(name))

\* if not file.filename
NoFilename(request) == ~TruthyStr(request.filename)

\* if file.content_type and not file.content_type.startswith("video/")
UnsupportedType(request) ==
    /\ TruthyStr(request.content_type)
    /\ ~StartsWith(Get(request.content_type), <<"v", "i", "d", "e", "o", "/">>)

\* The HTTPException an except clause raises for the exception caught.
HttpError(exc) ==
    CASE exc = "ValueError" -> 400
      [] exc = "FileNotFoundError" -> 404
      [] exc = "RuntimeError" -> 500
      [] OTHER -> 500

\* What an upload request can be and meet: a filename, absent, empty, with
\* or without extension; a content type; and how each call the handler makes
\* comes out.
Requests ==
    [ filename : {None, Some(<<>>), Some(<<"a", ".", "m", "p", "4">>), Some(<<"a">>)},
      content_type : {None, Some(<<>>), Some(<<"v", "i", "d", "e", "o", "/", "m", "p", "4">>), Some(<<"t", "e", "x", "t", "/", "p", "l", "a", "i", "n">>)},
      copy : {"ok", "OSError", "ValueError", "FileNotFoundError"},
      run : {"return", "ValueError", "FileNotFoundError", "RuntimeError", "DetectorError"},
      render : {"ok", "TypeError"},
      remove : {"ok", "OSError"} ]

\* The handler's state when the request arrives.
Received(request) ==
    [ at |-> "received",
      request |-> request,
      tmp |-> "none",
      suffix |-> <<>>,
      pending |-> None,
      result |-> None,
      removals |-> 0,
      warnings |-> 0,
      response |-> None ]

\* Caught with the removal at the end of the try block instead of in a
\* finally block: the HTTPException leaves the handler at once.
CaughtLeavingAtOnce(u, exc) ==
    [u EXCEPT !.at = "done", !.pending = Some(exc),
              !.result = Some(HttpError(exc)), !.response = Some(HttpError(exc))]

\* An exception of the try block reaches the except clauses: the
\* HTTPException is raised, and the finally block is next.
Caught(u, exc) ==
    [u EXCEPT !.at = "finally", !.pending = Some(exc), !.result = Some(HttpError(exc))]

\* The finally block: os.remove(tmp_file.name), an OSError only logged; then
\* the response, or the HTTPException, leaves the handler.
Finally(u) ==
    [u EXCEPT !.at = "done",
              !.removals = u.removals + 1,
              !.tmp = IF u.request.remove = "ok" THEN "removed" ELSE u.tmp,
              !.warnings = IF u.request.remove = "ok" THEN u.warnings ELSE u.warnings + 1,
              !.response = u.result]

InitUpload ==
    /\ NoRun
    /\ call = NoCall
    /\ ret = None
    /\ runs = <<>>
    /\ \E request \in Requests : upload = Some(Received(request))

\* A request without filename, or of another content type than video/, is
\* refused with 400 before any file is created.
UploadRefused ==
    /\ upload # None
    /\ Get(upload).at = "received"
    /\ NoFilename(Get(upload).request) \/ UnsupportedType(Get(upload).request)
    /\ upload' = Some([Get(upload) EXCEPT !.at = "done", !.response = Some(400)])
    /\ UNCHANGED <<pvars, call, ret, runs>>

\* tempfile.NamedTemporaryFile(delete=False, suffix=suffix)
UploadCreateTemp ==
    /\ upload # None
    /\ Get(upload).at = "received"
    /\ ~NoFilename(Get(upload).request)
    /\ ~UnsupportedType(Get(upload).request)
    /\ upload' = Some([Get(upload) EXCEPT
                          !.at = "copy",
                          !.tmp = "exists",
                          !.suffix = IF Suffix(Get(Get(upload).request.filename)) # <<>>
                                     THEN Suffix(Get(Get(upload).request.filename))
                                     ELSE <<".", "m", "p", "4">>])
    /\ UNCHANGED <<pvars, call, ret, runs>>

\* await _copy_upload_to_disk(file, tmp_file.name)
UploadCopy ==
    /\ upload # None
    /\ Get(upload).at = "copy"
    /\ upload' = Some(IF Get(upload).request.copy = "ok"
                      THEN [Get(upload) EXCEPT !.at = "run"]
                      ELSE Caught(Get(upload), Get(upload).request.copy))
    /\ UNCHANGED <<pvars, call, ret, runs>>

\* await run_in_threadpool(detector_service.process_video, ...)
UploadRun ==
    /\ upload # None
    /\ Get(upload).at = "run"
    /\ upload' = Some(IF Get(upload).request.run = "return"
                      THEN [Get(upload) EXCEPT !.at = "respond"]
                      ELSE Caught(Get(upload), Get(upload).request.run))
    /\ UNCHANGED <<pvars, call, ret, runs>>

\* return JSONResponse({"success": True, **detection_result})
UploadRespond ==
    /\ upload # None
    /\ Get(upload).at = "respond"
    /\ upload' = Some(IF Get(upload).request.render = "ok"
                      THEN [Get(upload) EXCEPT !.at = "finally", !.result = Some(200)]
                      ELSE Caught(Get(upload), Get(upload).request.render))
    /\ UNCHANGED <<pvars, call, ret, runs>>

\* The finally block, on the way out of the try statement.
UploadFinally ==
    /\ upload # None
    /\ Get(upload).at = "finally"
    /\ upload' = Some(Finally(Get(upload)))
    /\ UNCHANGED <<pvars, call, ret, runs>>

NextUpload ==
    \/ UploadRefused
    \/ UploadCreateTemp
    \/ UploadCopy
    \/ UploadRun
    \/ UploadRespond
    \/ UploadFinally

SpecUpload == InitUpload /\ [][NextUpload]_vars

\* The request passed the filename and content-type checks.
Accepted(request) ==
    /\ request.filename \notin {None, Some(<<>>)}
    /\ \/ request.content_type \in {None, Some(<<>>)}
       \/ SubSeq(Get(request.content_type), 1, 6) = <<"v", "i", "d", "e", "o", "/">>

\* The status the request is answered with, whatever os.remove does.
ExpectedStatus(request) ==
    LET failure == IF request.copy # "ok" THEN request.copy
                   ELSE IF request.run # "return" THEN request.run
                   ELSE IF request.render # "ok" THEN request.render
                   ELSE "none"
    IN  CASE failure = "none" -> 200
          [] failure = "ValueError" -> 400
          [] failure = "FileNotFoundError" -> 404
          [] OTHER -> 500

\* C20: a request that passes the filename and content-type checks has a
\* temporary file, and when the request completes, by a response or by an
\* HTTP error, os.remove has been attempted on it exactly once (never before,
\* never twice), on success, copy failure, ValueError (400), FileNotFoundError
\* (404), RuntimeError (500) and any other exception (500) alike; a removal
\* that fails is logged and the response is the same as when it succeeds.
C20_TempFileRemovedOnce ==
    (upload # None /\ Accepted(Get(upload).request)) =>
        LET u == Get(upload)
        IN  /\ u.removals <= 1
            /\ u.at \in {"copy", "run", "respond", "finally"} =>
                   u.removals = 0 /\ u.tmp = "exists" /\ u.response = None
            /\ u.at = "done" =>
                   /\ u.removals = 1
                   /\ u.tmp = (IF u.request.remove = "ok" THEN "removed" ELSE "exists")
                   /\ u.warnings = (IF u.request.remove = "ok" THEN 0 ELSE 1)
                   /\ u.response = Some(ExpectedStatus(u.request))

\* C20 witness: process_video raised RuntimeError, the request is answered
\* 500, and the removal, attempted once, failed and was logged.
C20_Witness ==
    /\ upload # None
    /\ Get(upload).at = "done"
    /\ Get(upload).request.copy = "ok"
    /\ Get(upload).request.run = "RuntimeError"
    /\ Get(upload).request.remove = "OSError"
    /\ Get(upload).removals = 1
    /\ Get(upload).warnings = 1
    /\ Get(upload).response = Some(500)

-----------------------------------------------------------------------------
(* process_video calls running side by side. The endpoint hands every       *)
(* request's own temporary file to detector_service.process_video in a      *)
(* worker thread; the calls share the detector_service object. A step of a  *)
(* run is one pass of its loop, and the steps of the runs interleave.       *)

\* The runs.
RunIds == 1..2

\* Frames of the video of a run, at most.
MaxConcFrames == 2

\* The frames of these videos: a frame with two shirts, a frame without
\* boxes, and a frame on which the model raises.
ConcFrames ==
    {[frame |-> f, raises |-> FALSE] :
        f \in {g \in FrameKinds : g.boxes = None \/ (g.encodable /\ Len(RawOf(g)) = 2)}}
    \cup {[frame |-> f, raises |-> TRUE] : f \in {g \in FrameKinds : g.boxes = None}}

\* The videos: a missing file, or a file of 1 fps with its frames.
ConcVideos ==
    {[state |-> "missing", fps |-> 0, count |-> 0, frames |-> <<>>]}
    \cup {[state |-> "ok", fps |-> 1, count |-> Len(fs), frames |-> fs] :
            fs \in UNION {[1..n -> ConcFrames] : n \in 0..MaxConcFrames}}

\* The arguments: an interval of 1.0 or 0 seconds, the target "SHIRT", no
\* cap or a cap of one frame.
ConcArgs ==
    {a \in ArgSets :
        /\ a.frame_interval_seconds \in {Rat(1, 1), Rat(0, 1)}
        /\ a.min_confidence = None
        /\ a.query = [object |-> Some(<<"S", "H", "I", "R", "T">>), color |-> None]
        /\ a.max_frames \in {None, Some(1)}}

\* The locals of a process_video call on entry.
Started(v, a) ==
    [ video |-> v,
      args |-> a,
      pc |-> "start",
      capture |-> "none",
      reads |-> 0,
      fps |-> 0,
      total_frames |-> 0,
      duration |-> Rat(0, 1),
      frame_step |-> 0,
      frame_index |-> 0,
      processed_frames |-> 0,
      detections |-> <<>>,
      target_hits |-> <<>>,
      outcome |-> None ]

\* The sum of processed_frames over the runs ids.
RECURSIVE TotalProcessed(_, _)
TotalProcessed(rs, ids) ==
    IF ids = {} THEN 0
    ELSE LET i == CHOOSE i \in ids : TRUE
         IN  rs[i].processed_frames + TotalProcessed(rs, ids \ {i})

\* ProcessedFrames were the counter an attribute of detector_service, that
\* every run increments.
ProcessedFramesOnService(rs, r) == TotalProcessed(rs, DOMAIN rs)

\* processed_frames as run r reads it: a local of the call.
ProcessedFrames(rs, r) == rs[r].processed_frames

\* One step of run r among the runs rs: the entry of the call up to the loop,
\* or one pass of the loop.
StepRun(rs, r) ==
    LET s == rs[r]
        a == s.args
        v == s.video
    IN  IF s.pc = "start"
        THEN IF v.state = "missing"
             THEN [s EXCEPT !.pc = "raised",
                            !.outcome = Some(Raised("FileNotFoundError"))]
             ELSE IF v.state = "unopenable"
             THEN [s EXCEPT !.pc = "raised", !.outcome = Some(Raised("RuntimeError"))]
             ELSE IF IntervalRejected(a.frame_interval_seconds)
             THEN [s EXCEPT !.capture = "open",
                            !.fps = v.fps,
                            !.total_frames = v.count,
                            !.duration = Duration(v.count, v.fps),
                            !.pc = "raised",
                            !.outcome = Some(Raised("ValueError"))]
             ELSE [s EXCEPT !.capture = "open",
                            !.fps = EffectiveFps(v.fps),
                            !.total_frames = v.count,
                            !.duration = Duration(v.count, v.fps),
                            !.frame_step = FrameStep(a.frame_interval_seconds,
                                                     EffectiveFps(v.fps)),
                            !.pc = "loop"]
        ELSE IF s.reads >= Len(v.frames)
        THEN [s EXCEPT !.capture = "released",
                       !.pc = "returned",
                       !.outcome = Some(Returned(a, s.fps, s.duration, s.total_frames,
                                                 ProcessedFrames(rs, r),
                                                 s.detections, s.target_hits))]
        ELSE IF ~Sampled(s.frame_index, s.frame_step)
        THEN [s EXCEPT !.reads = s.reads + 1, !.frame_index = s.frame_index + 1]
        ELSE LET shot == v.frames[s.reads + 1]
                 processed == ProcessedFrames(rs, r) + 1
             IN  IF shot.raises
                 THEN [s EXCEPT !.reads = s.reads + 1,
                                !.processed_frames = processed,
                                !.capture = "released",
                                !.pc = "raised",
                                !.outcome = Some(Raised("DetectorError"))]
                 ELSE LET fd == InferFrame(shot.frame,
                                           ConfidenceThreshold(a.min_confidence),
                                           Rat(s.frame_index, s.fps), s.frame_index)
                          dets == DetectionsAfter(s.detections, fd)
                          hits == IF fd.objects # <<>>
                                  THEN HitsAfter(s.target_hits, fd, TargetObject(a))
                                  ELSE s.target_hits
                      IN  IF CapReached(a.max_frames, processed)
                          THEN [s EXCEPT !.reads = s.reads + 1,
                                         !.processed_frames = processed,
                                         !.detections = dets,
                                         !.target_hits = hits,
                                         !.capture = "released",
                                         !.pc = "returned",
                                         !.outcome = Some(Returned(a, s.fps, s.duration,
                                                                   s.total_frames, processed,
                                                                   dets, hits))]
                          ELSE [s EXCEPT !.reads = s.reads + 1,
                                         !.processed_frames = processed,
                                         !.detections = dets,
                                         !.target_hits = hits,
                                         !.frame_index = s.frame_index + 1]

InitConc ==
    /\ NoRun
    /\ call = NoCall
    /\ ret = None
    /\ upload = None
    /\ runs \in [RunIds -> {Started(v, a) : v \in ConcVideos, a \in ConcArgs}]

\* Run r enters process_video.
ConcCall(r) ==
    /\ runs[r].pc = "start"
    /\ runs' = [runs EXCEPT ![r] = StepRun(runs, r)]
    /\ UNCHANGED <<pvars, call, ret, upload>>

\* Run r makes one pass of its loop.
ConcIterate(r) ==
    /\ runs[r].pc = "loop"
    /\ runs' = [runs EXCEPT ![r] = StepRun(runs, r)]
    /\ UNCHANGED <<pvars, call, ret, upload>>

NextConc == \E r \in RunIds : ConcCall(r) \/ ConcIterate(r)

SpecConc == InitConc /\ [][NextConc]_vars

\* The call on its own, run to its end.
RECURSIVE RunAlone(_)
RunAlone(s) ==
    IF s.pc \in {"returned", "raised"} THEN s ELSE RunAlone(StepRun(1 :> s, 1))

\* C18: under every interleaving of the steps of two process_video calls on
\* the shared detector_service, a run that has ended has the results, target
\* hits and summary, or the exception, of the same call run alone, whether
\* the other run is still going, has returned or has failed; and a run in
\* progress has touched only its own locals.
C18_RunsDoNotInterfere ==
    \A r \in RunIds :
        LET alone == RunAlone(Started(runs[r].video, runs[r].args))
        IN  /\ runs[r].pc \in {"returned", "raised"} =>
                   /\ runs[r].outcome = alone.outcome
                   /\ runs[r].processed_frames = alone.processed_frames
            /\ runs[r].processed_frames <= alone.processed_frames
            /\ Len(runs[r].detections) <= Len(alone.detections)

\* C18 witness: the first run has failed on its second frame, the model
\* raising, and the second has returned two results and two target hits.
C18_Witness ==
    /\ runs # <<>>
    /\ runs[1].outcome = Some(Raised("DetectorError"))
    /\ runs[1].processed_frames = 2
    /\ runs[2].pc = "returned"
    /\ Len(Get(runs[2].outcome).results) = 2
    /\ Len(Get(runs[2].outcome).target_hits) = 2

=============================================================================
